---- MODULE Spec2Model ----
(***************************************************************************)
(* Model of models/dqdetr/backbone.py: FrozenBatchNorm2d, BackboneBase,    *)
(* Backbone, Joiner, VitBackboneAdapter and build_backbone.                *)
(*                                                                         *)
(* Tensors are modelled by what the code reads of them: a feature tensor   *)
(* by its shape and dtype, a mask by its pixels (one image of the batch:   *)
(* F.interpolate treats every batch element independently).                *)
(***************************************************************************)
EXTENDS Integers, Sequences, FiniteSets, TLC

VARIABLES
    pc,           \* where the caller stands
    args,         \* build_backbone's argument
    locals,       \* build_backbone's local variables
    result,       \* what the last construction call raised or returned
    heap,         \* the encoders constructed so far, oldest first
    ctor,         \* the arguments of a direct Backbone(...) call
    bk,           \* the Backbone a direct call constructed
    joiner,       \* the Joiner built over bk
    tensor_list,  \* the input of the last forward call
    out,          \* BackboneBase.forward's last result
    jout,         \* Joiner.forward's last result
    mk_call,      \* interpolation specification: the forward call made
    mk_out,       \* interpolation specification: its result
    fbn,          \* FrozenBatchNorm2d's buffers
    fbn_x,        \* FrozenBatchNorm2d.forward's last input
    fbn_y         \* FrozenBatchNorm2d.forward's last output

vars == <<pc, args, locals, result, heap, ctor, bk, joiner, tensor_list, out, jout,
          mk_call, mk_out, fbn, fbn_x, fbn_y>>

buildVars == <<pc, args, locals, result, heap, ctor, bk, joiner, tensor_list, out, jout>>
maskVars == <<mk_call, mk_out>>
normVars == <<fbn, fbn_x, fbn_y>>

(***************************************************************************)
(* Bounds of the model.                                                    *)
(***************************************************************************)
MaxSelLen == 4      \* longest return_interm_indices list tried
MaxImgH == 9        \* tallest image fed to the ResNet body
MaxImgW == 2        \* widest image fed to the ResNet body
MaxH == 3           \* tallest mask in the interpolation specification
MaxW == 2           \* widest mask in the interpolation specification
MaxTall == 26       \* tallest one-column mask in the interpolation specification
MaxChannels == 1    \* channels of the FrozenBatchNorm2d layer
RsqrtScale == 100   \* fixed-point denominator of rsqrt's result

(***************************************************************************)
(* Generic helpers.                                                        *)
(***************************************************************************)
SeqsUpTo(S, n) == UNION {[1..k -> S] : k \in 0..n}

Contains(sub, s) ==
    \E i \in 0..(Len(s) - Len(sub)) : SubSeq(s, i + 1, i + Len(sub)) = sub

CeilDiv(a, b) == (a + b - 1) \div b

Min(a, b) == IF a <= b THEN a ELSE b

(***************************************************************************)
(* Configuration values.                                                   *)
(***************************************************************************)
StageIds == 0..3
Selections == SeqsUpTo(StageIds, MaxSelLen)
LegalSelections == {<<0, 1, 2, 3>>, <<1, 2, 3>>, <<3>>}

ConvNames == {"resnet50", "resnet101"}
VitNames == {"SSLVisionTransformer", "ssl_vit"}
TorchvisionNames == {"resnet18", "resnet34", "resnet50", "resnet101"}
BackboneNames == TorchvisionNames \cup VitNames \cup {"swin_T_224_1k"}
LrValues == {-1, 0, 1}
EmbedDims == {768, 1280}
OutIndexLists == {<<9, 16, 22, 29>>}

(***************************************************************************)
(* torchvision.models.resnet*: the encoder the Backbone wraps.             *)
(* Parameter names are token sequences, so that 'layer2' in name is a      *)
(* real substring test. With norm_layer=FrozenBatchNorm2d the norm layers  *)
(* hold buffers only, so the parameters are the conv and fc weights.       *)
(***************************************************************************)
LayerParams(k) ==
    { <<"layer", k, ".", "0", ".", "conv1", ".", "weight">>,
      <<"layer", k, ".", "0", ".", "downsample", ".", "0", ".", "weight">> }

ResnetParamNames ==
    { <<"conv1", ".", "weight">>, <<"fc", ".", "weight">>, <<"fc", ".", "bias">> }
    \cup UNION {LayerParams(k) : k \in {"1", "2", "3", "4"}}

NoEncoder == [kind |-> "none", name |-> "", dilation |-> FALSE]

\* BasicBlock (resnet18/34) refuses replace_stride_with_dilation
TorchvisionResnet(name, dilation) ==
    IF name \in {"resnet18", "resnet34"} /\ dilation
    THEN [raised |-> "NotImplementedError", encoder |-> NoEncoder]
    ELSE [raised |-> "",
          encoder |-> [kind |-> "resnet", name |-> name, dilation |-> dilation]]

\* spatial size of a ResNet layer's output along one axis
RECURSIVE ResnetSize(_, _, _)
ResnetSize(layer, n, dilation) ==
    IF layer = 1 THEN CeilDiv(CeilDiv(n, 2), 2)
    ELSE IF layer = 4 /\ dilation THEN ResnetSize(3, n, dilation)
    ELSE CeilDiv(ResnetSize(layer - 1, n, dilation), 2)

(***************************************************************************)
(* Masks and F.interpolate(mode="nearest").                                *)
(* A mask is [H, W, px] with px a function on (1..H) \X (1..W).           *)
(*                                                                         *)
(* torch computes the source index of output index dst (0-based) in        *)
(* float32: scale = float(in) / out, then floorf(dst * scale), clamped to  *)
(* in - 1.  A float32 is modelled as [m, s], the number m / 2^s with m of  *)
(* at most 24 bits, and both operations round to nearest, ties to even.    *)
(***************************************************************************)
Pixels(H, W) == (1..H) \X (1..W)

Pow2(k) == 2 ^ k

\* the number of bits of n: the least k with n < 2^k
RECURSIVE BitLen(_)
BitLen(n) == IF n = 0 THEN 0 ELSE 1 + BitLen(n \div 2)

\* n / d rounded to the nearest integer, ties to even
RoundHalfEven(n, d) ==
    LET q == n \div d
        r == n % d
    IN IF 2 * r > d \/ (2 * r = d /\ q % 2 = 1) THEN q + 1 ELSE q

\* float(a) / b for 1 <= b <= a
F32Div(a, b) ==
    LET k == BitLen(a \div b) - 1
        s == 23 - k
    IN [m |-> RoundHalfEven(a * Pow2(s), b), s |-> s]

\* i * f for an integer i >= 0
F32MulInt(i, f) ==
    LET prod == i * f.m
        drop == IF BitLen(prod) > 24 THEN BitLen(prod) - 24 ELSE 0
    IN [m |-> RoundHalfEven(prod, Pow2(drop)) * Pow2(drop), s |-> f.s]

\* floorf(f)
F32Floor(f) == f.m \div Pow2(f.s)

\* the source index rounded up instead of down
NearestIdx_RoundUp(dst, inSize, outSize) ==
    Min(CeilDiv((dst - 1) * inSize, outSize), inSize - 1) + 1

\* the 1-based source index of the 1-based output index dst
NearestIdx(dst, inSize, outSize) ==
    Min(F32Floor(F32MulInt(dst - 1, F32Div(inSize, outSize))), inSize - 1) + 1

\* m.float(): True -> 1.0, False -> 0.0
ToFloat(m) == [H |-> m.H, W |-> m.W, px |-> [p \in Pixels(m.H, m.W) |-> IF m.px[p] THEN 1 ELSE 0]]

\* .to(torch.bool): non-zero -> True
ToBool(t) == [H |-> t.H, W |-> t.W, px |-> [p \in Pixels(t.H, t.W) |-> t.px[p] # 0]]

Interpolate(t, h, w) ==
    [H |-> h, W |-> w,
     px |-> [p \in Pixels(h, w) |->
                t.px[<<NearestIdx(p[1], t.H, h), NearestIdx(p[2], t.W, w)>>]]]

\* BackboneBase.forward line 101: interpolate(m[None].float(), size).to(bool)[0]
BackboneBaseMask(m, h, w) == ToBool(Interpolate(ToFloat(m), h, w))

\* VitBackboneAdapter.forward lines 169-171: interpolate(...)[0].to(bool)
VitAdapterMask(m, h, w) == ToBool(Interpolate(ToFloat(m), h, w))

NoMask == [H |-> 0, W |-> 0, px |-> <<>>]

\* NestedTensor(tensors, mask); tensors is modelled by its shape and dtype
NestedTensor(x, mask) == [tensors |-> x, mask |-> mask]

(***************************************************************************)
(* BackboneBase                                                            *)
(***************************************************************************)
NoBackbone ==
    [cls |-> "none", encoder |-> NoEncoder, requires_grad |-> <<>>,
     return_layers |-> <<>>, num_channels |-> <<>>, out_indices |-> <<>>,
     baseInit |-> FALSE]

\* the freezing test with its 'or' turned into 'and'
FreezePolicy_AndForOr(train_backbone, grad) ==
    [name \in DOMAIN grad |->
        IF ~train_backbone
           /\ (~Contains(<<"layer", "2">>, name)
               /\ ~Contains(<<"layer", "3">>, name)
               /\ ~Contains(<<"layer", "4">>, name))
        THEN FALSE
        ELSE grad[name]]

\* lines 77-79: the freezing loop over backbone.named_parameters()
FreezePolicy(train_backbone, grad) ==
    [name \in DOMAIN grad |->
        IF ~train_backbone
           \/ (~Contains(<<"layer", "2">>, name)
               /\ ~Contains(<<"layer", "3">>, name)
               /\ ~Contains(<<"layer", "4">>, name))
        THEN FALSE
        ELSE grad[name]]

\* return_layers counted from the first layer instead of from the last
ReturnLayers_FromFirst(return_interm_indices) ==
    [i \in 1..Len(return_interm_indices) |->
        <<i, ToString(return_interm_indices[i])>>]

\* lines 81-83: return_layers as the pairs <<layer number, output key>>,
\* in insertion order ("layer{}".format(5 - len + idx) -> "{}".format(layer_index))
ReturnLayers(return_interm_indices) ==
    [i \in 1..Len(return_interm_indices) |->
        <<5 - Len(return_interm_indices) + (i - 1), ToString(return_interm_indices[i])>>]

BackboneBaseInit(encoder, train_backbone, num_channels, return_interm_indices) ==
    [cls |-> "Backbone", encoder |-> encoder,
     requires_grad |-> FreezePolicy(train_backbone, [n \in ResnetParamNames |-> TRUE]),
     return_layers |-> ReturnLayers(return_interm_indices),
     num_channels |-> num_channels, out_indices |-> <<>>,
     baseInit |-> TRUE]

\* dict[key] = value on an insertion-ordered dict (a sequence of items)
DictSet(d, k, v) ==
    IF \E i \in DOMAIN d : d[i].key = k
    THEN [i \in DOMAIN d |-> IF d[i].key = k THEN [key |-> k, value |-> v] ELSE d[i]]
    ELSE Append(d, [key |-> k, value |-> v])

\* IntermediateLayerGetter.forward: run the children in order, keep the
\* output of each one named in return_layers under its key
RECURSIVE BodyFrom(_, _, _, _)
BodyFrom(layer, b, tl, acc) ==
    IF layer > 4 THEN acc
    ELSE LET hits == {i \in DOMAIN b.return_layers : b.return_layers[i][1] = layer}
             x == [layer |-> layer,
                   H |-> ResnetSize(layer, tl.H, b.encoder.dilation),
                   W |-> ResnetSize(layer, tl.W, b.encoder.dilation),
                   dtype |-> tl.dtype]
         IN BodyFrom(layer + 1, b, tl,
                IF hits = {} THEN acc
                ELSE DictSet(acc, b.return_layers[CHOOSE i \in hits : TRUE][2], x))

Body(b, tl) == BodyFrom(1, b, tl, <<>>)

\* lines 97-104: the loop over xs.items(); the result is [raised, items]
RECURSIVE ForwardLoop(_, _, _, _)
ForwardLoop(xs, i, tl, acc) ==
    IF i > Len(xs) THEN [raised |-> "", items |-> acc]
    ELSE IF tl.mask.isNone THEN [raised |-> "AssertionError", items |-> <<>>]
    ELSE ForwardLoop(xs, i + 1, tl,
            DictSet(acc, xs[i].key,
                NestedTensor(xs[i].value,
                    BackboneBaseMask(tl.mask.m, xs[i].value.H, xs[i].value.W))))

BackboneBaseForwardOn(xs, tl) == ForwardLoop(xs, 1, tl, <<>>)

\* lines 95-104
BackboneBaseForward(b, tl) == BackboneBaseForwardOn(Body(b, tl), tl)

(***************************************************************************)
(* Backbone                                                                *)
(***************************************************************************)
NumChannelsAll == <<256, 512, 1024, 2048>>

\* num_channels_all[4 - len(return_interm_indices):]
SliceFrom(s, start) == SubSeq(s, start + 1, Len(s))

Failed(err, encoder) ==
    [raised |-> err, encoder |-> encoder, obj |-> NoBackbone]

\* the constructor checking only the length of the selection
BackboneInit_LengthOnly(name, train_backbone, dilation, return_interm_indices) ==
    IF name \notin {"resnet18", "resnet34", "resnet50", "resnet101"}
    THEN Failed("NotImplementedError", NoEncoder)
    ELSE LET tv == TorchvisionResnet(name, dilation)
         IN IF tv.raised # "" THEN Failed(tv.raised, NoEncoder)
            ELSE IF name \in {"resnet18", "resnet34"}
            THEN Failed("AssertionError", tv.encoder)
            ELSE IF Len(return_interm_indices) \notin {4, 3, 1}
            THEN Failed("AssertionError", tv.encoder)
            ELSE [raised |-> "", encoder |-> tv.encoder,
                  obj |-> BackboneBaseInit(tv.encoder, train_backbone,
                             SliceFrom(NumChannelsAll, 4 - Len(return_interm_indices)),
                             return_interm_indices)]

\* the constructor without its assert on resnet18 and resnet34
BackboneInit_NoDepthAssert(name, train_backbone, dilation, return_interm_indices) ==
    IF name \notin {"resnet18", "resnet34", "resnet50", "resnet101"}
    THEN Failed("NotImplementedError", NoEncoder)
    ELSE LET tv == TorchvisionResnet(name, dilation)
         IN IF tv.raised # "" THEN Failed(tv.raised, NoEncoder)
            ELSE IF return_interm_indices \notin LegalSelections
            THEN Failed("AssertionError", tv.encoder)
            ELSE [raised |-> "", encoder |-> tv.encoder,
                  obj |-> BackboneBaseInit(tv.encoder, train_backbone,
                             SliceFrom(NumChannelsAll, 4 - Len(return_interm_indices)),
                             return_interm_indices)]

\* lines 109-129; the result records the error raised (or ""), the encoder
\* torchvision built on the way, and the constructed object
BackboneInit(name, train_backbone, dilation, return_interm_indices) ==
    IF name \notin {"resnet18", "resnet34", "resnet50", "resnet101"}
    THEN Failed("NotImplementedError", NoEncoder)
    ELSE LET tv == TorchvisionResnet(name, dilation)
         IN IF tv.raised # "" THEN Failed(tv.raised, NoEncoder)
            ELSE IF name \in {"resnet18", "resnet34"}
            THEN Failed("AssertionError", tv.encoder)
            ELSE IF return_interm_indices \notin LegalSelections
            THEN Failed("AssertionError", tv.encoder)
            ELSE [raised |-> "", encoder |-> tv.encoder,
                  obj |-> BackboneBaseInit(tv.encoder, train_backbone,
                             SliceFrom(NumChannelsAll, 4 - Len(return_interm_indices)),
                             return_interm_indices)]

(***************************************************************************)
(* VitBackboneAdapter                                                      *)
(***************************************************************************)
VitEncoder == [kind |-> "vit", name |-> "SSLVisionTransformer", dilation |-> FALSE]

\* lines 154-158
VitBackboneAdapterInit(vit, out_indices) ==
    [cls |-> "VitBackboneAdapter", encoder |-> vit, requires_grad |-> <<>>,
     return_layers |-> <<>>, num_channels |-> <<>>, out_indices |-> out_indices,
     baseInit |-> FALSE]

\* lines 165-173: zip(out_indices, feats) stops at the shorter of the two
RECURSIVE VitLoop(_, _, _, _, _)
VitLoop(out_indices, feats, i, tl, acc) ==
    IF i > Min(Len(out_indices), Len(feats)) THEN acc
    ELSE VitLoop(out_indices, feats, i + 1, tl,
            DictSet(acc, "stage" \o ToString(out_indices[i]),
                NestedTensor(feats[i],
                    VitAdapterMask(tl.mask.m, feats[i].H, feats[i].W))))

VitBackboneAdapterForward(b, feats, tl) ==
    [raised |-> "", items |-> VitLoop(b.out_indices, feats, 1, tl, <<>>)]

(***************************************************************************)
(* Joiner                                                                  *)
(***************************************************************************)
\* the position-encoding generator: a tensor of the feature map's spatial
\* shape computed from its mask
PositionEmbedding(x) ==
    [kind |-> "pos", H |-> x.tensors.H, W |-> x.tensors.W, of |-> x.mask,
     dtype |-> "float32"]

\* tensor.to(dtype)
To(t, dtype) == [t EXCEPT !.dtype = dtype]

NoJoiner == [backbone |-> NoBackbone, position_embedding |-> "none"]

\* lines 133-134
JoinerInit(backbone, position_embedding) ==
    [backbone |-> backbone, position_embedding |-> position_embedding]

\* the loop inserting each encoding at the front of pos
RECURSIVE JoinerLoop_PosReversed(_, _, _, _)
JoinerLoop_PosReversed(items, i, outAcc, posAcc) ==
    IF i > Len(items) THEN [raised |-> "", out |-> outAcc, pos |-> posAcc]
    ELSE JoinerLoop_PosReversed(items, i + 1,
            Append(outAcc, items[i].value),
            <<To(PositionEmbedding(items[i].value),
                 items[i].value.tensors.dtype)>> \o posAcc)

\* lines 138-145: the loop over xs.items()
RECURSIVE JoinerLoop(_, _, _, _)
JoinerLoop(items, i, outAcc, posAcc) ==
    IF i > Len(items) THEN [raised |-> "", out |-> outAcc, pos |-> posAcc]
    ELSE JoinerLoop(items, i + 1,
            Append(outAcc, items[i].value),
            Append(posAcc, To(PositionEmbedding(items[i].value),
                              items[i].value.tensors.dtype)))

\* lines 136-145: xs is the result of self[0](tensor_list)
JoinerForward(xs) ==
    IF xs.raised # "" THEN [raised |-> xs.raised, out |-> <<>>, pos |-> <<>>]
    ELSE JoinerLoop(xs.items, 1, <<>>, <<>>)

(***************************************************************************)
(* build_backbone                                                          *)
(***************************************************************************)
ArgsSet ==
    [backbone : BackboneNames, lr_backbone : LrValues,
     return_interm_indices : Selections, dilation : BOOLEAN,
     embed_dim : EmbedDims, out_indices : OutIndexLists]

NoArgs ==
    [backbone |-> "", lr_backbone |-> 0, return_interm_indices |-> <<>>,
     dilation |-> FALSE, embed_dim |-> 0, out_indices |-> <<>>]

NoLocals ==
    [bound |-> {}, position_embedding |-> "none", backbone |-> NoBackbone,
     bb_num_channels |-> <<>>, num_channels |-> <<>>]

NoModel == [joiner |-> NoJoiner, num_channels |-> <<>>]

NoResult == [status |-> "none", error |-> "", model |-> NoModel]

Raise(err) == [status |-> "raised", error |-> err, model |-> NoModel]

Return(model) == [status |-> "returned", error |-> "", model |-> model]

Bind(l, name) == [l EXCEPT !.bound = @ \cup {name}]

Built(h, encoder) == IF encoder.kind = "none" THEN h ELSE Append(h, encoder)

\* the caller invokes build_backbone(a): the branch taken at lines 189, 210, 236
CallBuildBackbone ==
    /\ pc = "idle"
    /\ \E a \in ArgsSet :
         /\ args' = a
         /\ IF a.backbone \in {"resnet50", "resnet101"}
            THEN pc' = "bb_conv" /\ result' = result
            ELSE IF a.backbone \in {"SSLVisionTransformer", "ssl_vit"}
            THEN pc' = "bb_vit" /\ result' = result
            ELSE pc' = "bb_done" /\ result' = Raise("NotImplementedError")
    /\ UNCHANGED <<locals, heap, ctor, bk, joiner, tensor_list, out, jout>>
    /\ UNCHANGED <<maskVars, normVars>>

\* the prologue testing lr_backbone >= 0
BuildConvPrologue_LrNonNegative ==
    /\ pc = "bb_conv"
    /\ LET l1 == [Bind(locals, "position_embedding")
                    EXCEPT !.position_embedding = "PositionEmbedding"]
           train_backbone == args.lr_backbone >= 0
       IN /\ locals' = l1
          /\ IF ~train_backbone
             THEN pc' = "bb_done" /\ result' = Raise("ValueError")
             ELSE IF args.return_interm_indices \notin LegalSelections
             THEN pc' = "bb_done" /\ result' = Raise("AssertionError")
             ELSE pc' = "bb_backbone" /\ result' = result
    /\ UNCHANGED <<args, heap, ctor, bk, joiner, tensor_list, out, jout>>
    /\ UNCHANGED <<maskVars, normVars>>

\* lines 190-197
BuildConvPrologue ==
    /\ pc = "bb_conv"
    /\ LET l1 == [Bind(locals, "position_embedding")
                    EXCEPT !.position_embedding = "PositionEmbedding"]
           train_backbone == args.lr_backbone > 0
       IN /\ locals' = l1
          /\ IF ~train_backbone
             THEN pc' = "bb_done" /\ result' = Raise("ValueError")
             ELSE IF args.return_interm_indices \notin LegalSelections
             THEN pc' = "bb_done" /\ result' = Raise("AssertionError")
             ELSE pc' = "bb_backbone" /\ result' = result
    /\ UNCHANGED <<args, heap, ctor, bk, joiner, tensor_list, out, jout>>
    /\ UNCHANGED <<maskVars, normVars>>

\* lines 199-208
BuildConvBackbone ==
    /\ pc = "bb_backbone"
    /\ LET train_backbone == args.lr_backbone > 0
           r == BackboneInit(args.backbone, train_backbone, args.dilation,
                             args.return_interm_indices)
       IN /\ heap' = Built(heap, r.encoder)
          /\ IF r.raised # ""
             THEN pc' = "bb_done" /\ result' = Raise(r.raised) /\ locals' = locals
             ELSE /\ locals' = [Bind(Bind(locals, "backbone"), "bb_num_channels")
                                  EXCEPT !.backbone = r.obj,
                                         !.bb_num_channels = r.obj.num_channels]
                  /\ IF Len(r.obj.num_channels) # Len(args.return_interm_indices)
                     THEN pc' = "bb_done" /\ result' = Raise("AssertionError")
                     ELSE pc' = "bb_join" /\ result' = result
    /\ UNCHANGED <<args, ctor, bk, joiner, tensor_list, out, jout>>
    /\ UNCHANGED <<maskVars, normVars>>

\* lines 211-234
BuildVit ==
    /\ pc = "bb_vit"
    /\ heap' = Built(heap, VitEncoder)
    /\ locals' = [Bind(Bind(locals, "backbone"), "num_channels")
                    EXCEPT !.backbone = VitBackboneAdapterInit(VitEncoder, args.out_indices),
                           !.num_channels = <<320, 640, args.embed_dim, args.embed_dim>>]
    /\ pc' = "bb_join"
    /\ UNCHANGED <<args, result, ctor, bk, joiner, tensor_list, out, jout>>
    /\ UNCHANGED <<maskVars, normVars>>

\* lines 239-242: reading a local that no executed statement assigned raises
\* UnboundLocalError
BuildJoin ==
    /\ pc = "bb_join"
    /\ pc' = "bb_done"
    /\ result' =
         IF ~({"backbone", "position_embedding"} \subseteq locals.bound)
         THEN Raise("UnboundLocalError")
         ELSE LET model == JoinerInit(locals.backbone, locals.position_embedding)
              IN IF "num_channels" \notin locals.bound
                 THEN Raise("UnboundLocalError")
                 ELSE Return([joiner |-> model, num_channels |-> locals.num_channels])
    /\ UNCHANGED <<args, locals, heap, ctor, bk, joiner, tensor_list, out, jout>>
    /\ UNCHANGED <<maskVars, normVars>>

(***************************************************************************)
(* Direct use of the classes: Backbone(...), Joiner(...), forward calls.   *)
(***************************************************************************)
CtorNames == TorchvisionNames \cup {"resnet152"}

NoCtor ==
    [name |-> "", train_backbone |-> FALSE, dilation |-> FALSE,
     return_interm_indices |-> <<>>]

RectMask(H, W, vh, vw) ==
    [H |-> H, W |-> W, px |-> [p \in Pixels(H, W) |-> p[1] <= vh /\ p[2] <= vw]]

Dtypes == {"float32", "float16"}

\* the inputs of forward: an image of every small size, its mask true on a
\* top-left rectangle (the padding layout of a batch), or no mask at all
TensorLists ==
    UNION {
        {[H |-> H, W |-> W, dtype |-> d, mask |-> [isNone |-> TRUE, m |-> NoMask]]
            : d \in Dtypes}
        \cup
        {[H |-> H, W |-> W, dtype |-> d,
          mask |-> [isNone |-> FALSE, m |-> RectMask(H, W, vh, vw)]]
            : d \in Dtypes, vh \in 0..H, vw \in 0..W}
        : H \in 1..MaxImgH, W \in 1..MaxImgW}

NoTensorList == [H |-> 0, W |-> 0, dtype |-> "", mask |-> [isNone |-> TRUE, m |-> NoMask]]

NoOut == [raised |-> "", items |-> <<>>]

NoJout == [raised |-> "", out |-> <<>>, pos |-> <<>>]

\* the caller invokes Backbone(name, train_backbone, dilation, return_interm_indices)
NewBackbone ==
    /\ pc = "idle"
    /\ \E name \in CtorNames, train_backbone \in BOOLEAN, dilation \in BOOLEAN,
          return_interm_indices \in Selections :
         LET r == BackboneInit(name, train_backbone, dilation, return_interm_indices)
         IN /\ ctor' = [name |-> name, train_backbone |-> train_backbone,
                        dilation |-> dilation,
                        return_interm_indices |-> return_interm_indices]
            /\ heap' = Built(heap, r.encoder)
            /\ bk' = r.obj
            /\ result' = IF r.raised # "" THEN Raise(r.raised) ELSE Return(NoModel)
    /\ pc' = "ctor_done"
    /\ UNCHANGED <<args, locals, joiner, tensor_list, out, jout>>
    /\ UNCHANGED <<maskVars, normVars>>

\* the caller invokes Joiner(bk, position_embedding)
NewJoiner ==
    /\ pc = "ctor_done"
    /\ bk.cls = "Backbone"
    /\ joiner' = JoinerInit(bk, "PositionEmbedding")
    /\ pc' = "joiner_ready"
    /\ UNCHANGED <<args, locals, result, heap, ctor, bk, tensor_list, out, jout>>
    /\ UNCHANGED <<maskVars, normVars>>

\* the caller invokes bk(tensor_list)
ForwardBackbone ==
    /\ pc = "ctor_done"
    /\ bk.cls = "Backbone"
    /\ \E tl \in TensorLists :
         /\ tensor_list' = tl
         /\ out' = BackboneBaseForward(bk, tl)
    /\ pc' = "fwd_done"
    /\ UNCHANGED <<args, locals, result, heap, ctor, bk, joiner, jout>>
    /\ UNCHANGED <<maskVars, normVars>>

\* the caller invokes joiner(tensor_list)
ForwardJoiner ==
    /\ pc = "joiner_ready"
    /\ \E tl \in TensorLists :
         /\ tensor_list' = tl
         /\ out' = BackboneBaseForward(joiner.backbone, tl)
         /\ jout' = JoinerForward(BackboneBaseForward(joiner.backbone, tl))
    /\ pc' = "join_done"
    /\ UNCHANGED <<args, locals, result, heap, ctor, bk, joiner>>
    /\ UNCHANGED <<maskVars, normVars>>

NoMaskCall == [cls |-> "none", tl |-> NoTensorList, feats |-> <<>>]

NoFbn == [weight |-> <<>>, bias |-> <<>>, running_mean |-> <<>>, running_var |-> <<>>]

Init ==
    /\ pc = "idle"
    /\ args = NoArgs
    /\ locals = NoLocals
    /\ result = NoResult
    /\ heap = <<>>
    /\ ctor = NoCtor
    /\ bk = NoBackbone
    /\ joiner = NoJoiner
    /\ tensor_list = NoTensorList
    /\ out = NoOut
    /\ jout = NoJout
    /\ mk_call = NoMaskCall
    /\ mk_out = NoOut
    /\ fbn = NoFbn
    /\ fbn_x = <<>>
    /\ fbn_y = <<>>

Next ==
    \/ CallBuildBackbone
    \/ BuildConvPrologue
    \/ BuildConvBackbone
    \/ BuildVit
    \/ BuildJoin
    \/ NewBackbone
    \/ NewJoiner
    \/ ForwardBackbone
    \/ ForwardJoiner

Spec == Init /\ [][Next]_vars

(***************************************************************************)
(* The interpolation specification: one forward call of BackboneBase or of *)
(* VitBackboneAdapter on an arbitrary mask, over an encoder whose features *)
(* have an arbitrary size no larger than the image.                        *)
(***************************************************************************)
MaskInput(m) ==
    [H |-> m.H, W |-> m.W, dtype |-> "float32", mask |-> [isNone |-> FALSE, m |-> m]]

\* every mask of a small image
SmallMasks ==
    UNION {{[H |-> H, W |-> W, px |-> px] : px \in [Pixels(H, W) -> BOOLEAN]}
           : H \in 1..MaxH, W \in 1..MaxW}

\* one column of a tall image, true on the rows 1..hi (padding below)
TallMasks ==
    UNION {{[H |-> H, W |-> 1, px |-> [p \in Pixels(H, 1) |-> p[1] <= hi]]
              : hi \in 0..H}
           : H \in (MaxH + 1)..MaxTall}

MaskInputs == {MaskInput(m) : m \in SmallMasks \cup TallMasks}

Feature(layer, h, w, dtype) == [layer |-> layer, H |-> h, W |-> w, dtype |-> dtype]

\* the encoder's features: one level, or two with the second at half the size
Pyramids(tl) ==
    UNION {
        { <<Feature(1, h, w, tl.dtype)>>,
          <<Feature(1, h, w, tl.dtype),
            Feature(2, CeilDiv(h, 2), CeilDiv(w, 2), tl.dtype)>> }
        : h \in 1..tl.H, w \in 1..tl.W}

InitMask ==
    /\ pc = "mask"
    /\ args = NoArgs
    /\ locals = NoLocals
    /\ result = NoResult
    /\ heap = <<>>
    /\ ctor = NoCtor
    /\ bk = NoBackbone
    /\ joiner = NoJoiner
    /\ tensor_list = NoTensorList
    /\ out = NoOut
    /\ jout = NoJout
    /\ mk_call \in {[cls |-> "none", tl |-> tl, feats |-> <<>>] : tl \in MaskInputs}
    /\ mk_out = NoOut
    /\ fbn = NoFbn
    /\ fbn_x = <<>>
    /\ fbn_y = <<>>

\* BackboneBase.forward over a body that returns feats under the keys "0", "1"
InterpBackboneBase ==
    /\ pc = "mask"
    /\ mk_call.cls = "none"
    /\ \E feats \in Pyramids(mk_call.tl) :
         LET xs == [i \in DOMAIN feats |-> [key |-> ToString(i - 1), value |-> feats[i]]]
         IN /\ mk_call' = [mk_call EXCEPT !.cls = "BackboneBase", !.feats = feats]
            /\ mk_out' = BackboneBaseForwardOn(xs, mk_call.tl)
    /\ UNCHANGED <<buildVars, normVars>>

\* VitBackboneAdapter.forward over a ViT that returns feats
InterpVitAdapter ==
    /\ pc = "mask"
    /\ mk_call.cls = "none"
    /\ \E feats \in Pyramids(mk_call.tl), out_indices \in OutIndexLists :
         /\ mk_call' = [mk_call EXCEPT !.cls = "VitBackboneAdapter", !.feats = feats]
         /\ mk_out' = VitBackboneAdapterForward(
                          VitBackboneAdapterInit(VitEncoder, out_indices),
                          feats, mk_call.tl)
    /\ UNCHANGED <<buildVars, normVars>>

NextMask == InterpBackboneBase \/ InterpVitAdapter

SpecMask == InitMask /\ [][NextMask]_vars

(***************************************************************************)
(* FrozenBatchNorm2d.  Values are integers; rsqrt's result is a fixed-     *)
(* point number with denominator RsqrtScale, and so is everything          *)
(* multiplied by it.  rv + eps is counted in units of eps = 1/EpsInv.      *)
(***************************************************************************)
EpsInv == 100000

RECURSIVE ISqrtBetween(_, _, _)
ISqrtBetween(n, lo, hi) ==
    IF lo >= hi THEN lo
    ELSE LET mid == (lo + hi + 1) \div 2
         IN IF mid * mid <= n THEN ISqrtBetween(n, mid, hi)
            ELSE ISqrtBetween(n, lo, mid - 1)

\* the largest s with s * s <= n
ISqrt(n) == ISqrtBetween(n, 0, 46340)

\* (rv + eps) in units of eps
AddEps(rv) == rv * EpsInv + 1

\* v.rsqrt() for v in units of eps, as a fixed-point number
Rsqrt(v) == ISqrt((EpsInv * RsqrtScale * RsqrtScale) \div v)

\* an integer as a fixed-point number
Fixed(n) == n * RsqrtScale

BufferNames == {"weight", "bias", "running_mean", "running_var"}

WeightVals == {1, 2}
BiasVals == {0, 1}
MeanVals == {0, 3}
VarVals == {0, 1, 4}
XVals == {-2, 0, 1, 5}

\* lines 43-48
FrozenBatchNorm2dInit(n) ==
    [weight |-> [c \in 1..n |-> 1], bias |-> [c \in 1..n |-> 0],
     running_mean |-> [c \in 1..n |-> 0], running_var |-> [c \in 1..n |-> 1]]

\* the state dicts a checkpoint may hold for a layer of n channels, with or
\* without the num_batches_tracked entry of nn.BatchNorm2d
StateDicts(n) ==
    LET full == [weight : [1..n -> WeightVals], bias : [1..n -> BiasVals],
                 running_mean : [1..n -> MeanVals], running_var : [1..n -> VarVals],
                 num_batches_tracked : {<<0>>}]
    IN full \cup {[k \in BufferNames |-> sd[k]] : sd \in full}

\* lines 50-58: drop num_batches_tracked, then nn.Module copies every
\* buffer from the state dict
LoadFromStateDict(state_dict) ==
    LET kept == [k \in DOMAIN state_dict \ {"num_batches_tracked"} |-> state_dict[k]]
    IN [unexpected_keys |-> DOMAIN kept \ BufferNames,
        buffers |-> [weight |-> kept.weight, bias |-> kept.bias,
                     running_mean |-> kept.running_mean,
                     running_var |-> kept.running_var]]

\* forward with the sign of running_mean * scale flipped
FrozenBatchNorm2dForward_BiasSign(f, x) ==
    [c \in DOMAIN x |->
        LET scale == f.weight[c] * Rsqrt(AddEps(f.running_var[c]))
            bias == Fixed(f.bias[c]) + f.running_mean[c] * scale
        IN x[c] * scale + bias]

\* lines 60-70, on one pixel of every channel
FrozenBatchNorm2dForward(f, x) ==
    [c \in DOMAIN x |->
        LET w == f.weight[c]
            b == f.bias[c]
            rv == f.running_var[c]
            rm == f.running_mean[c]
            scale == w * Rsqrt(AddEps(rv))
            bias == Fixed(b) - rm * scale
        IN x[c] * scale + bias]

InitNorm ==
    /\ pc = "norm_idle"
    /\ args = NoArgs
    /\ locals = NoLocals
    /\ result = NoResult
    /\ heap = <<>>
    /\ ctor = NoCtor
    /\ bk = NoBackbone
    /\ joiner = NoJoiner
    /\ tensor_list = NoTensorList
    /\ out = NoOut
    /\ jout = NoJout
    /\ mk_call = NoMaskCall
    /\ mk_out = NoOut
    /\ \E n \in 1..MaxChannels : fbn = FrozenBatchNorm2dInit(n)
    /\ fbn_x = <<>>
    /\ fbn_y = <<>>

\* load_state_dict on the layer (a checkpoint is restored before the layer
\* is used)
FbnLoad ==
    /\ pc = "norm_idle"
    /\ \E sd \in StateDicts(Len(fbn.weight)) :
         LET r == LoadFromStateDict(sd)
         IN /\ r.unexpected_keys = {}
            /\ fbn' = r.buffers
    /\ pc' = "norm_idle"
    /\ UNCHANGED <<args, locals, result, heap, ctor, bk, joiner, tensor_list, out, jout>>
    /\ UNCHANGED <<maskVars, fbn_x, fbn_y>>

\* the layer applied to x
FbnForward ==
    /\ pc \in {"norm_idle", "norm_fwd"}
    /\ \E x \in [1..Len(fbn.weight) -> XVals] :
         /\ fbn_x' = x
         /\ fbn_y' = FrozenBatchNorm2dForward(fbn, x)
    /\ pc' = "norm_fwd"
    /\ UNCHANGED <<args, locals, result, heap, ctor, bk, joiner, tensor_list, out, jout>>
    /\ UNCHANGED <<maskVars, fbn>>

NextNorm == FbnLoad \/ FbnForward

SpecNorm == InitNorm /\ [][NextNorm]_vars

(***************************************************************************)
(* Properties of construction and of the forward calls (under Spec).       *)
(***************************************************************************)
ConvBuildReturned ==
    /\ pc = "bb_done"
    /\ args.backbone \in ConvNames
    /\ args.lr_backbone > 0
    /\ args.return_interm_indices \in LegalSelections

\* C1: build_backbone on resnet50/resnet101 with lr_backbone > 0 and a legal
\* stage selection returns a Joiner over the Backbone and the position
\* encoding, whose num_channels is [256,512,1024,2048] sliced to the
\* selected suffix, as long as the selection.
C1_ConvBuildReturnsJoiner ==
    ConvBuildReturned =>
        /\ result.status = "returned"
        /\ result.model.joiner.backbone.cls = "Backbone"
        /\ result.model.joiner.position_embedding = "PositionEmbedding"
        /\ result.model.num_channels =
              SubSeq(<<256, 512, 1024, 2048>>,
                     5 - Len(args.return_interm_indices), 4)
        /\ Len(result.model.num_channels) = Len(args.return_interm_indices)

\* C2: build_backbone on 'SSLVisionTransformer' or 'ssl_vit' returns a
\* Joiner over the VitBackboneAdapter and the position encoding, whose
\* num_channels is [320, 640, embed_dim, embed_dim].
C2_VitBuildReturnsJoiner ==
    (pc = "bb_done" /\ args.backbone \in VitNames) =>
        /\ result.status = "returned"
        /\ result.model.joiner.backbone.cls = "VitBackboneAdapter"
        /\ result.model.joiner.position_embedding = "PositionEmbedding"
        /\ result.model.num_channels = <<320, 640, args.embed_dim, args.embed_dim>>

\* C3: Backbone(resnet50 | resnet101, ...) is constructed, BackboneBase
\* initialised, exactly when the stage selection is [0,1,2,3], [1,2,3] or
\* [3]; every other selection raises and BackboneBase is never initialised.
\* build_backbone's own assert rejects the same selections before any
\* encoder is built.
C3_SelectionAcceptedIffLegal ==
    /\ (pc \in {"ctor_done", "fwd_done", "joiner_ready", "join_done"}
           /\ ctor.name \in ConvNames) =>
          /\ (result.status = "returned" /\ bk.baseInit)
                <=> ctor.return_interm_indices \in
                      {<<0, 1, 2, 3>>, <<1, 2, 3>>, <<3>>}
          /\ result.status = "raised" <=> ~bk.baseInit
          /\ result.status \in {"raised", "returned"}
    /\ (pc = "bb_done" /\ args.backbone \in ConvNames /\ args.lr_backbone > 0
           /\ args.return_interm_indices \notin
                 {<<0, 1, 2, 3>>, <<1, 2, 3>>, <<3>>}) =>
          (result.status = "raised" /\ heap = <<>>)

C3_Witness ==
    /\ pc = "ctor_done"
    /\ ctor.name = "resnet50"
    /\ ctor.return_interm_indices = <<0, 2>>
    /\ result.status = "raised"
    /\ ~bk.baseInit

\* C4: build_backbone on resnet50/resnet101 with lr_backbone <= 0 raises
\* ValueError, and no encoder is constructed at any point of the call,
\* whatever the other fields of args are.
C4_NonPositiveLrRaisesFirst ==
    (args.backbone \in ConvNames /\ args.lr_backbone <= 0) =>
        /\ heap = <<>>
        /\ pc \in {"bb_conv", "bb_done"}
        /\ pc = "bb_done" => (result.status = "raised" /\ result.error = "ValueError")

C4_Witness ==
    /\ pc = "bb_done"
    /\ args.backbone = "resnet101"
    /\ args.lr_backbone = 0
    /\ args.return_interm_indices = <<0, 2>>
    /\ result.error = "ValueError"
    /\ heap = <<>>

CtorReturned == pc \in {"ctor_done", "fwd_done", "joiner_ready", "join_done"}

\* C5 as stated: every name other than resnet50 and resnet101 fails with
\* NotImplementedError.
C5_OtherNamesNotImplemented ==
    (CtorReturned /\ ctor.name \notin ConvNames) =>
        (result.status = "raised" /\ result.error = "NotImplementedError")

\* C5 amended: every name other than resnet50 and resnet101 fails and
\* BackboneBase is never initialised. A name outside resnet18/34/50/101
\* fails with NotImplementedError before any encoder is built. resnet18 and
\* resnet34 pass the name test and torchvision is asked for the encoder:
\* when it builds one (no dilation) the constructor then fails with
\* AssertionError; with dilation torchvision itself refuses.
C5_OtherNamesFail ==
    (CtorReturned /\ ctor.name \notin ConvNames) =>
        /\ result.status = "raised"
        /\ ~bk.baseInit
        /\ ctor.name \notin {"resnet18", "resnet34"} =>
              (result.error = "NotImplementedError" /\ heap = <<>>)
        /\ (ctor.name \in {"resnet18", "resnet34"} /\ ~ctor.dilation) =>
              (result.error = "AssertionError" /\ Len(heap) = 1)
        /\ (ctor.name \in {"resnet18", "resnet34"} /\ ctor.dilation) =>
              (result.error = "NotImplementedError" /\ heap = <<>>)

C5_Witness ==
    /\ pc = "ctor_done"
    /\ ctor.name = "resnet18"
    /\ ~ctor.dilation
    /\ result.error = "AssertionError"
    /\ Len(heap) = 1

\* C6: for each legal selection and every input with a mask,
\* BackboneBase.forward returns one FeatureMap per selected stage, in
\* ascending order: selection index i is tapped from layer i+1 under key
\* str(i), and the mask of each FeatureMap has the height and width of its
\* feature tensor.
C6_OneFeatureMapPerStage ==
    (pc = "fwd_done" /\ ~tensor_list.mask.isNone) =>
        /\ out.raised = ""
        /\ Len(out.items) = Len(ctor.return_interm_indices)
        /\ \A i \in DOMAIN out.items :
              LET fm == out.items[i].value
                  sel == ctor.return_interm_indices[i]
              IN /\ out.items[i].key = <<"0", "1", "2", "3">>[sel + 1]
                 /\ fm.tensors.layer = sel + 1
                 /\ fm.mask.H = fm.tensors.H
                 /\ fm.mask.W = fm.tensors.W
                 /\ DOMAIN fm.mask.px = (1..fm.tensors.H) \X (1..fm.tensors.W)
                 /\ \A j \in DOMAIN out.items :
                       i < j => fm.tensors.layer < out.items[j].value.tensors.layer

C6_Witness ==
    /\ pc = "fwd_done"
    /\ ~tensor_list.mask.isNone
    /\ ctor.return_interm_indices = <<1, 2, 3>>
    /\ Len(out.items) = 3
    /\ out.items[1].value.mask.H = 2
    /\ out.items[2].value.mask.H = 1
    /\ \E p \in DOMAIN out.items[1].value.mask.px : out.items[1].value.mask.px[p]
    /\ \E p \in DOMAIN out.items[1].value.mask.px : ~out.items[1].value.mask.px[p]

\* C7: Joiner.forward returns two lists as long as the backbone's output
\* mapping; element i of the first is entry i of the mapping, element i of
\* the second is the position encoding of that same entry (in the dtype of
\* its feature tensor).
C7_ListsParallel ==
    (pc = "join_done" /\ out.raised = "") =>
        /\ jout.raised = ""
        /\ Len(jout.out) = Len(out.items)
        /\ Len(jout.pos) = Len(out.items)
        /\ \A i \in DOMAIN out.items :
              /\ jout.out[i] = out.items[i].value
              /\ jout.pos[i].kind = "pos"
              /\ jout.pos[i].of = out.items[i].value.mask
              /\ jout.pos[i].H = out.items[i].value.tensors.H
              /\ jout.pos[i].W = out.items[i].value.tensors.W
              /\ jout.pos[i].dtype = out.items[i].value.tensors.dtype

C7_Witness ==
    /\ pc = "join_done"
    /\ Len(jout.out) = 3
    /\ Len(jout.pos) = 3
    /\ jout.pos[1].H = 2
    /\ jout.pos[3].H = 1
    /\ jout.pos[1].dtype = "float16"

\* C9: a parameter of a constructed Backbone has requires_grad exactly when
\* train_backbone is true and its name contains layer2, layer3 or layer4:
\* the stem, layer1 and fc are frozen always, everything is frozen when
\* train_backbone is false, and this still holds after forward calls.
C9_FreezingPolicy ==
    bk.cls = "Backbone" =>
        /\ DOMAIN bk.requires_grad = ResnetParamNames
        /\ \A name \in DOMAIN bk.requires_grad :
              bk.requires_grad[name] <=>
                 /\ ctor.train_backbone
                 /\ name \in LayerParams("2") \cup LayerParams("3") \cup LayerParams("4")
        /\ ~bk.requires_grad[<<"conv1", ".", "weight">>]
        /\ \A name \in LayerParams("1") : ~bk.requires_grad[name]
        /\ pc \in {"joiner_ready", "join_done"} =>
              joiner.backbone.requires_grad = bk.requires_grad

C9_Witness ==
    /\ pc = "fwd_done"
    /\ out.raised = ""
    /\ ctor.train_backbone
    /\ bk.requires_grad[<<"layer", "2", ".", "0", ".", "conv1", ".", "weight">>]
    /\ ~bk.requires_grad[<<"layer", "1", ".", "0", ".", "conv1", ".", "weight">>]

(***************************************************************************)
(* Properties of mask downsampling (under SpecMask).                       *)
(***************************************************************************)
TrueSet(m) == {p \in DOMAIN m.px : m.px[p]}

RowsOf(m) == {p[1] : p \in TrueSet(m)}

ColsOf(m) == {p[2] : p \in TrueSet(m)}

\* S has no gap: every element but the largest is followed by its successor
IsInterval(S) == \A a \in S : (a + 1 \in S) \/ (\A b \in S : b <= a)

\* the true pixels of m form a non-empty rectangle
IsRectangle(m) ==
    /\ TrueSet(m) # {}
    /\ TrueSet(m) = RowsOf(m) \X ColsOf(m)
    /\ IsInterval(RowsOf(m))
    /\ IsInterval(ColsOf(m))

\* index i (1-based) of an axis scaled from inSize to outSize lies at or
\* after the scaled start of the set S of source indices
AfterStart(i, S, inSize, outSize) ==
    \E r \in S : (r - 1) * outSize <= (i - 1) * inSize

\* ... and strictly before its scaled end
BeforeEnd(i, S, inSize, outSize) ==
    \E r \in S : (i - 1) * inSize < r * outSize

\* ... and at or before its scaled end
UpToEnd(i, S, inSize, outSize) ==
    \E r \in S : (i - 1) * inSize <= r * outSize

DirectForm(f, x, c) ==
    f.weight[c] * (x[c] - f.running_mean[c])
        * ISqrt((EpsInv * RsqrtScale * RsqrtScale) \div (f.running_var[c] * EpsInv + 1))
      + f.bias[c] * RsqrtScale

====
